---- MODULE Spec2Model ----
(***************************************************************************)
(* Model of Fetch_AWS_Details/file.py: the region enumerator, the three    *)
(* per-region collectors (EC2, RDS, OpenSearch), the aggregation done in   *)
(* main and the export.  The AWS API is the environment: every API call's  *)
(* outcome (a response, a botocore ClientError, or any other exception     *)
(* such as a BotoCoreError) is drawn from a bounded set when the call is   *)
(* made.  Each function can be entered on its own (Call_* actions) or as   *)
(* part of main (Main_* actions).                                          *)
(***************************************************************************)
EXTENDS Integers, Sequences, FiniteSets, TLC

VARIABLES pc, arg, ret, account, regions, i, all_ec2, all_rds, all_os, calls, exported, file

vars == <<pc, arg, ret, account, regions, i, all_ec2, all_rds, all_os, calls, exported, file>>

(* ------------------------------ bounds -------------------------------- *)

\* A function entered on its own: the sizes of the responses it is given.
MaxRes == 2
MaxInst == 3
MaxDB == 2
MaxDomains == 2
\* A run of main: the regions of the account and the resources of each kind
\* in a region, when every API call succeeds ...
MaxRegions == 3
MaxRows == 5
\* ... and when API calls may fail.
FlakyRegions == 2
FlakyRows == 1

(* --------------------------- Python values ---------------------------- *)

None == [t |-> "NoneType", v |-> "None"]

PyStr(s) == [t |-> "str", v |-> s]

PyInt(n) == [t |-> "int", v |-> n]

PyBool(b) == [t |-> "bool", v |-> b]

EmptyDict == <<>>

\* bool(x) of Python: None, False, 0 and '' are falsy.
Truthy(x) ==
  CASE x.t = "NoneType" -> FALSE
    [] x.t = "bool" -> x.v
    [] x.t = "int" -> x.v # 0
    [] x.t = "str" -> x.v # ""
    [] OTHER -> TRUE

\* a or b
Or(a, b) == IF Truthy(a) THEN a ELSE b

\* d.get(k, default)
Get(d, k, default) == IF k \in DOMAIN d THEN d[k] ELSE default

\* {tag['Key']: tag['Value'] for tag in taglist}: a later entry overwrites
\* an earlier one with the same key.
RECURSIVE TagDict(_)
TagDict(taglist) ==
  IF taglist = <<>> THEN EmptyDict
  ELSE LET n == Len(taglist)
           rest == TagDict(SubSeq(taglist, 1, n - 1))
       IN (taglist[n].Key :> taglist[n].Value) @@ rest

\* next((tag['Value'] for tag in taglist if tag['Key'] == 'Name'), '')
RECURSIVE FirstNameTag(_)
FirstNameTag(taglist) ==
  IF taglist = <<>> THEN ""
  ELSE IF Head(taglist).Key = "Name" THEN Head(taglist).Value
  ELSE FirstNameTag(Tail(taglist))

\* The two ways a function ends.
Return(v) == [raised |-> FALSE, value |-> v]

Raise == [raised |-> TRUE, value |-> <<>>]

\* pd.DataFrame() and pd.DataFrame([]): a table with no rows.
EmptyTable == <<>>

(* ------------------------- API call outcomes --------------------------- *)

\* An API call returns a response, raises botocore's ClientError, or raises
\* something else (EndpointConnectionError, ConnectTimeoutError, ...).
Ok(resp) == [kind |-> "ok", resp |-> resp]

ClientError == [kind |-> "ClientError", resp |-> <<>>]

OtherError == [kind |-> "OtherError", resp |-> <<>>]

Failures == {ClientError, OtherError}

(* --------------------------- get_all_regions --------------------------- *)

\* Variant: a filter that forgets the opted-in regions.
Eligible_only_not_required(region) == region.OptInStatus = "opt-in-not-required"

Eligible(region) == region.OptInStatus \in {"opt-in-not-required", "opted-in"}

\* Variant: the listing failure handled as the collectors handle theirs,
\* giving no regions instead of raising.
get_all_regions_swallowing(o) ==
  IF o.kind # "ok" THEN Return(<<>>)
  ELSE LET elig == SelectSeq(o.resp.Regions, Eligible)
       IN Return([k \in 1..Len(elig) |-> elig[k].RegionName])

get_all_regions(o) ==
  IF o.kind # "ok" THEN Raise
  ELSE LET elig == SelectSeq(o.resp.Regions, Eligible)
       IN Return([k \in 1..Len(elig) |-> elig[k].RegionName])

(* ------------------------- fetch_ec2_instances ------------------------- *)

\* Variant: the row's Region taken from the fixed region of the
\* enumerator's client instead of the argument.
Ec2Row_fixed_region(region, instance) ==
  LET tags == IF "Tags" \in DOMAIN instance /\ instance["Tags"] # <<>>
              THEN TagDict(instance["Tags"]) ELSE EmptyDict
      lt == Get(instance, "LaunchTime", None)
  IN [Region |-> "us-east-1",
      InstanceId |-> Get(instance, "InstanceId", None),
      InstanceType |-> Get(instance, "InstanceType", None),
      State |-> Get(Get(instance, "State", EmptyDict), "Name", None),
      LaunchTime |-> IF Truthy(lt) THEN [lt EXCEPT !.tz = "None"] ELSE None,
      PublicIP |-> Get(instance, "PublicIpAddress", None),
      PrivateIP |-> Get(instance, "PrivateIpAddress", None),
      AvailabilityZone |-> Get(Get(instance, "Placement", EmptyDict), "AvailabilityZone", None),
      Name |-> Get(tags, "Name", ""),
      Tags |-> tags]

Ec2Row(region, instance) ==
  LET tags == IF "Tags" \in DOMAIN instance /\ instance["Tags"] # <<>>
              THEN TagDict(instance["Tags"]) ELSE EmptyDict
      lt == Get(instance, "LaunchTime", None)
  IN [Region |-> region,
      InstanceId |-> Get(instance, "InstanceId", None),
      InstanceType |-> Get(instance, "InstanceType", None),
      State |-> Get(Get(instance, "State", EmptyDict), "Name", None),
      LaunchTime |-> IF Truthy(lt) THEN [lt EXCEPT !.tz = "None"] ELSE None,
      PublicIP |-> Get(instance, "PublicIpAddress", None),
      PrivateIP |-> Get(instance, "PrivateIpAddress", None),
      AvailabilityZone |-> Get(Get(instance, "Placement", EmptyDict), "AvailabilityZone", None),
      Name |-> Get(tags, "Name", ""),
      Tags |-> tags]

\* Variant: only the first instance of a reservation is read.
Ec2InstanceRows_first_only(region, reservation) ==
  LET insts == Get(reservation, "Instances", <<>>)
  IN IF insts = <<>> THEN <<>> ELSE <<Ec2Row(region, insts[1])>>

\* The inner loop: one row per instance of a reservation, in order.
Ec2InstanceRows(region, reservation) ==
  LET insts == Get(reservation, "Instances", <<>>)
  IN [k \in 1..Len(insts) |-> Ec2Row(region, insts[k])]

\* The outer loop: the reservations in order.
RECURSIVE Ec2Rows(_, _)
Ec2Rows(region, reservations) ==
  IF reservations = <<>> THEN <<>>
  ELSE Ec2InstanceRows(region, Head(reservations)) \o Ec2Rows(region, Tail(reservations))

fetch_ec2_instances(region, o) ==
  IF o.kind = "ClientError" THEN Return(EmptyTable)
  ELSE IF o.kind # "ok" THEN Raise
  ELSE Return(Ec2Rows(region, Get(o.resp, "Reservations", <<>>)))

(* ------------------------- fetch_rds_instances ------------------------- *)

RdsRow(region, db) ==
  LET taglist == Get(db, "TagList", <<>>)
  IN [Region |-> region,
      DBInstanceIdentifier |-> Get(db, "DBInstanceIdentifier", None),
      DBInstanceClass |-> Get(db, "DBInstanceClass", None),
      Engine |-> Get(db, "Engine", None),
      EngineVersion |-> Get(db, "EngineVersion", None),
      DBInstanceStatus |-> Get(db, "DBInstanceStatus", None),
      Endpoint |-> Get(Get(db, "Endpoint", EmptyDict), "Address", None),
      AvailabilityZone |-> Get(db, "AvailabilityZone", None),
      StorageType |-> Get(db, "StorageType", None),
      AllocatedStorage |-> Get(db, "AllocatedStorage", None),
      Name |-> IF taglist # <<>> THEN FirstNameTag(taglist) ELSE ""]

fetch_rds_instances(region, o) ==
  IF o.kind = "ClientError" THEN Return(EmptyTable)
  ELSE IF o.kind # "ok" THEN Raise
  ELSE LET dbs == Get(o.resp, "DBInstances", <<>>)
       IN Return([k \in 1..Len(dbs) |-> RdsRow(region, dbs[k])])

(* ----------------------- fetch_opensearch_domains ---------------------- *)

\* The cluster fields read first under ClusterConfig, then under the legacy
\* ElasticsearchClusterConfig.
ClusterField(details, name) ==
  Or(Get(Get(details, "ClusterConfig", EmptyDict), name, None),
     Get(Get(details, "ElasticsearchClusterConfig", EmptyDict), name, None))

OsRow(region, domain_name, details, tags) ==
  [Region |-> region,
   DomainName |-> domain_name,
   EngineVersion |-> Or(Get(details, "EngineVersion", None),
                        Get(details, "ElasticsearchVersion", None)),
   Endpoint |-> Get(details, "Endpoint", None),
   ARN |-> Get(details, "ARN", None),
   InstanceType |-> ClusterField(details, "InstanceType"),
   InstanceCount |-> ClusterField(details, "InstanceCount"),
   DedicatedMasterEnabled |-> ClusterField(details, "DedicatedMasterEnabled"),
   ZoneAwarenessEnabled |-> ClusterField(details, "ZoneAwarenessEnabled"),
   Created |-> Get(details, "Created", None),
   Deleted |-> Get(details, "Deleted", None),
   Name |-> Get(tags, "Name", ""),
   Tags |-> tags]

\* list_tags(ARN=details['ARN']) under "except Exception": a missing ARN
\* (KeyError) or any failure of the call leaves tags = {}.
OsTags(details, tags_outcome) ==
  IF "ARN" \notin DOMAIN details \/ tags_outcome.kind # "ok" THEN EmptyDict
  ELSE TagDict(Get(tags_outcome.resp, "TagList", <<>>))

\* Whether describe_domain's failure for this domain is caught ("continue").
DetailFailureCaught(describe) == describe.kind = "ClientError"

\* The loop over domain_list.  Each listed domain carries the outcomes the
\* API gives to its describe_domain and list_tags calls.
RECURSIVE OsLoop(_, _, _)
OsLoop(region, domain_list, data) ==
  IF domain_list = <<>> THEN Return(data)
  ELSE LET domain == Head(domain_list)
           domain_name == domain.DomainName
       IN IF domain.describe.kind # "ok"
          THEN IF DetailFailureCaught(domain.describe)
               THEN OsLoop(region, Tail(domain_list), data)
               ELSE Raise
          ELSE LET details == domain.describe.resp.DomainStatus
                   tags == OsTags(details, domain.list_tags)
               IN OsLoop(region, Tail(domain_list),
                         Append(data, OsRow(region, domain_name, details, tags)))

fetch_opensearch_domains(region, o) ==
  IF o.kind = "ClientError" THEN Return(EmptyTable)
  ELSE IF o.kind # "ok" THEN Raise
  ELSE OsLoop(region, o.resp.DomainNames, <<>>)

(* ------------------------------- main ---------------------------------- *)

\* Variant: the tables put together last region first.
RECURSIVE pd_concat_reversed(_)
pd_concat_reversed(tables) ==
  IF tables = <<>> THEN EmptyTable
  ELSE pd_concat_reversed(Tail(tables)) \o Head(tables)

\* pd.concat(tables, ignore_index=True) if tables else pd.DataFrame()
RECURSIVE pd_concat(_)
pd_concat(tables) ==
  IF tables = <<>> THEN EmptyTable
  ELSE Head(tables) \o pd_concat(Tail(tables))

(* ------------------- the environment: API responses -------------------- *)

RegionPool == <<"us-east-1", "eu-west-1", "ap-south-1", "me-south-1", "af-south-1">>

InstancePool == <<"i-01", "i-02", "i-03", "i-04", "i-05", "i-06",
                  "i-07", "i-08", "i-09", "i-10", "i-11", "i-12">>

DbPool == <<"db-1", "db-2", "db-3", "db-4", "db-5", "db-6", "db-7", "db-8">>

DomainPool == <<"logs", "search", "metrics", "audit", "traces", "events", "orders", "users">>

OptInStatuses == {"opt-in-not-required", "opted-in", "not-opted-in"}

\* A describe_regions(AllRegions=True) response listing n regions.
RegionResponses(n) ==
  {Ok([Regions |-> [k \in 1..n |-> [RegionName |-> RegionPool[k], OptInStatus |-> st[k]]]])
   : st \in [1..n -> OptInStatuses]}

\* describe_regions(AllRegions=True): up to MaxRegions regions, each with
\* any opt-in status.
RegionOutcomes == Failures \cup UNION {RegionResponses(n) : n \in 0..MaxRegions}

\* The k-th instance of the r-th reservation; the first instance of a
\* reservation is tagged, the others have no Tags key.
Inst(r, k) ==
  [InstanceId |-> PyStr(InstancePool[(r - 1) * MaxInst + k]),
   InstanceType |-> PyStr("t3.micro"),
   State |-> [Name |-> PyStr("running")],
   LaunchTime |-> [t |-> "datetime", v |-> "2024-05-01T10:00:00", tz |-> "UTC"],
   PrivateIpAddress |-> PyStr("10.0.0.5"),
   Placement |-> [AvailabilityZone |-> PyStr("zone-a")]]
  @@ (IF k = 1
      THEN [Tags |-> <<[Key |-> "env", Value |-> "prod"], [Key |-> "Name", Value |-> "web-1"]>>]
      ELSE EmptyDict)

\* A describe_instances() response whose r-th reservation has counts[r]
\* instances.
Ec2Response(counts) ==
  [Reservations |-> [r \in 1..Len(counts) |->
     [Instances |-> [k \in 1..counts[r] |-> Inst(r, k)]]]]

\* describe_instances(): up to MaxRes reservations of 0..MaxInst instances.
Ec2Outcomes ==
  Failures \cup
  UNION {{Ok(Ec2Response(n)) : n \in [1..m -> 0..MaxInst]} : m \in 0..MaxRes}

Db(k) ==
  [DBInstanceIdentifier |-> PyStr(DbPool[k]),
   DBInstanceClass |-> PyStr("db.t3.medium"),
   Engine |-> PyStr("postgres"),
   EngineVersion |-> PyStr("15.4"),
   DBInstanceStatus |-> PyStr("available"),
   Endpoint |-> [Address |-> PyStr("db.example.internal")],
   AllocatedStorage |-> PyInt(20),
   TagList |-> IF k = 1
               THEN <<[Key |-> "Name", Value |-> "orders-db"], [Key |-> "Name", Value |-> "old"]>>
               ELSE <<>>]

\* A describe_db_instances() response with n instances.
RdsResponse(n) == [DBInstances |-> [k \in 1..n |-> Db(k)]]

\* describe_db_instances(): up to MaxDB instances.
RdsOutcomes == Failures \cup {Ok(RdsResponse(n)) : n \in 0..MaxDB}

\* What a DomainStatus holds under the current field names and under the
\* legacy ones: nothing, falsy values, or truthy values.
Shapes == {"absent", "falsy", "truthy"}

CurrentFields(shape) ==
  IF shape = "absent" THEN EmptyDict
  ELSE IF shape = "falsy"
  THEN [EngineVersion |-> PyStr(""),
        ClusterConfig |-> [InstanceType |-> PyStr(""), InstanceCount |-> PyInt(0),
                           DedicatedMasterEnabled |-> PyBool(FALSE),
                           ZoneAwarenessEnabled |-> PyBool(FALSE)]]
  ELSE [EngineVersion |-> PyStr("OpenSearch_2.11"),
        ClusterConfig |-> [InstanceType |-> PyStr("r6g.large.search"), InstanceCount |-> PyInt(3),
                           DedicatedMasterEnabled |-> PyBool(TRUE),
                           ZoneAwarenessEnabled |-> PyBool(TRUE)]]

LegacyFields(shape) ==
  IF shape = "absent" THEN EmptyDict
  ELSE IF shape = "falsy"
  THEN [ElasticsearchVersion |-> PyStr(""),
        ElasticsearchClusterConfig |->
          [InstanceType |-> PyStr(""), InstanceCount |-> PyInt(0),
           DedicatedMasterEnabled |-> PyBool(FALSE),
           ZoneAwarenessEnabled |-> PyBool(FALSE)]]
  ELSE [ElasticsearchVersion |-> PyStr("7.10"),
        ElasticsearchClusterConfig |->
          [InstanceType |-> PyStr("m5.large.elasticsearch"), InstanceCount |-> PyInt(5),
           DedicatedMasterEnabled |-> PyBool(TRUE),
           ZoneAwarenessEnabled |-> PyBool(TRUE)]]

MkDetails(k, cur, leg) ==
  [ARN |-> PyStr(DomainPool[k]), Endpoint |-> PyStr("vpc.example.internal"),
   Created |-> PyBool(TRUE), Deleted |-> PyBool(FALSE)]
  @@ CurrentFields(cur) @@ LegacyFields(leg)

NotCalled == [kind |-> "not-called", resp |-> <<>>]

NameTag == Ok([TagList |-> <<[Key |-> "Name", Value |-> "search-prod"]>>])

NoTags == Ok([TagList |-> <<>>])

\* list_tags(ARN=...): fails, or returns no tags, or a Name tag.
TagOutcomes == {OtherError, NoTags, NameTag}

\* The k-th listed domain with what describe_domain and list_tags do for it.
DomainEntries(k, shapes, tagOutcomes) ==
  {[DomainName |-> DomainPool[k], describe |-> f, list_tags |-> NotCalled] : f \in Failures}
  \cup
  {[DomainName |-> DomainPool[k],
    describe |-> Ok([DomainStatus |-> MkDetails(k, sh[1], sh[2])]),
    list_tags |-> tg] : sh \in shapes, tg \in tagOutcomes}

\* The first n listed domains.
RECURSIVE DomainLists(_, _)
DomainLists(n, shapes) ==
  IF n = 0 THEN {<<>>}
  ELSE {Append(d, e) : d \in DomainLists(n - 1, shapes),
                       e \in DomainEntries(n, shapes, TagOutcomes)}

\* list_domain_names() and the per-domain calls: up to MaxDomains domains.
OsOutcomes ==
  Failures \cup
  UNION {{Ok([DomainNames |-> d]) : d \in DomainLists(n, Shapes \X Shapes)}
         : n \in 0..MaxDomains}

\* The regions a collector is called with when it is entered on its own.
CallRegions == {RegionPool[1], RegionPool[2]}

(* ---------------- the environment: the account main scans --------------- *)

\* An account: for each listed region, in listing order, how many instances,
\* databases and search domains it holds, and whether its API calls may
\* fail.  The three kinds hold different numbers in a region.
Rotate(p) == IF p = <<>> THEN p ELSE Tail(p) \o <<Head(p)>>

Account(p, flaky) ==
  [ec2 |-> p, rds |-> Rotate(p), os |-> Rotate(Rotate(p)), flaky |-> flaky]

NoAccount == Account(<<>>, FALSE)

\* The numbers of resources a region holds when every call succeeds: none,
\* one, two, or MaxRows.
RowCounts == {0, 1, 2, MaxRows}

Accounts ==
  {Account(p, FALSE) : p \in UNION {[1..n -> RowCounts] : n \in 0..MaxRegions}}
  \cup
  {Account(p, TRUE) : p \in UNION {[1..n -> 0..FlakyRows] : n \in 0..FlakyRegions}}

\* The failures an API call on the account can end in.
ApiFailures(a) == IF a.flaky THEN Failures ELSE {}

RegionIndex(name) == CHOOSE k \in 1..Len(RegionPool) : RegionPool[k] = name

\* describe_regions on the account.
MainRegionOutcomes(a) == ApiFailures(a) \cup RegionResponses(Len(a.ec2))

\* n instances as the API groups them: reservations of up to MaxInst.
RECURSIVE Reservations(_)
Reservations(n) ==
  IF n = 0 THEN <<>>
  ELSE LET c == IF n < MaxInst THEN n ELSE MaxInst
       IN <<c>> \o Reservations(n - c)

\* describe_instances in a region of the account.
MainEc2Outcomes(a, region) ==
  ApiFailures(a) \cup {Ok(Ec2Response(Reservations(a.ec2[RegionIndex(region)])))}

\* describe_db_instances in a region of the account.
MainRdsOutcomes(a, region) ==
  ApiFailures(a) \cup {Ok(RdsResponse(a.rds[RegionIndex(region)]))}

\* The k-th domain of a region: on a flaky account describe_domain or
\* list_tags may fail; otherwise every other domain has a Name tag.
MainDomainEntries(a, k) ==
  IF a.flaky
  THEN DomainEntries(k, {<<"truthy", "absent">>}, {OtherError, NameTag})
  ELSE {[DomainName |-> DomainPool[k],
         describe |-> Ok([DomainStatus |-> MkDetails(k, "truthy", "absent")]),
         list_tags |-> IF k % 2 = 1 THEN NameTag ELSE NoTags]}

RECURSIVE MainDomainLists(_, _)
MainDomainLists(a, n) ==
  IF n = 0 THEN {<<>>}
  ELSE {Append(d, e) : d \in MainDomainLists(a, n - 1), e \in MainDomainEntries(a, n)}

\* list_domain_names and the per-domain calls in a region of the account.
MainOsOutcomes(a, region) ==
  ApiFailures(a) \cup
  {Ok([DomainNames |-> d]) : d \in MainDomainLists(a, a.os[RegionIndex(region)])}

\* How export_to_excel ends: the file saved and the closing message printed;
\* the file saved and the print raising (UnicodeEncodeError when stdout
\* cannot encode the check mark); or writing failed before the file was
\* created, or leaving a file that is not complete.
ExportOutcomes ==
  {[file |-> "complete", raised |-> FALSE],
   [file |-> "complete", raised |-> TRUE],
   [file |-> "absent", raised |-> TRUE],
   [file |-> "partial", raised |-> TRUE]}

(* ------------------------------- state --------------------------------- *)

NoArg == [op |-> "none", region |-> "-", outcome |-> Ok(<<>>)]

Init ==
  /\ pc = "idle"
  /\ arg = NoArg
  /\ ret = <<>>
  /\ account = NoAccount
  /\ regions = <<>>
  /\ i = 0
  /\ all_ec2 = <<>>
  /\ all_rds = <<>>
  /\ all_os = <<>>
  /\ calls = <<>>
  /\ exported = <<>>
  /\ file = "absent"

mainVars == <<account, regions, i, all_ec2, all_rds, all_os, calls, exported, file>>

(* --------------- each function entered on its own ---------------------- *)

\* One call of a function: its argument and API outcome are kept in arg,
\* its return value in ret, and pc tells whether it returned or raised.
Called(op, region, o, r) ==
  /\ arg' = [op |-> op, region |-> region, outcome |-> o]
  /\ ret' = r.value
  /\ pc' = IF r.raised THEN "raised" ELSE "returned"
  /\ UNCHANGED mainVars

Call_get_all_regions ==
  /\ pc = "idle"
  /\ \E o \in RegionOutcomes : Called("get_all_regions", "-", o, get_all_regions(o))

Call_fetch_ec2_instances ==
  /\ pc = "idle"
  /\ \E region \in CallRegions, o \in Ec2Outcomes :
       Called("fetch_ec2_instances", region, o, fetch_ec2_instances(region, o))

Call_fetch_rds_instances ==
  /\ pc = "idle"
  /\ \E region \in CallRegions, o \in RdsOutcomes :
       Called("fetch_rds_instances", region, o, fetch_rds_instances(region, o))

Call_fetch_opensearch_domains ==
  /\ pc = "idle"
  /\ \E region \in CallRegions, o \in OsOutcomes :
       Called("fetch_opensearch_domains", region, o, fetch_opensearch_domains(region, o))

(* -------------------------------- main --------------------------------- *)

\* A call main makes.  api is how the call's API request ended, kept for
\* the two calls whose failure main does not survive by design; "-" for the
\* collectors.
Event(op, region, kind) == [op |-> op, region |-> region, api |-> kind]

\* regions = get_all_regions('ec2') on some account; an exception ends the
\* run.
Main_get_all_regions ==
  /\ pc = "idle"
  /\ \E a \in Accounts : \E o \in MainRegionOutcomes(a) :
       LET r == get_all_regions(o)
       IN /\ account' = a
          /\ calls' = Append(calls, Event("get_all_regions", "-", o.kind))
          /\ IF r.raised
             THEN /\ pc' = "aborted"
                  /\ UNCHANGED <<regions, i>>
             ELSE /\ regions' = r.value
                  /\ i' = 1
                  /\ pc' = IF Len(r.value) >= 1 THEN "ec2" ELSE "export"
  /\ UNCHANGED <<arg, ret, all_ec2, all_rds, all_os, exported, file>>

\* Where the loop goes after the last collector of region i.
AfterRegion == IF i < Len(regions) THEN "ec2" ELSE "export"

NextIndex == i + 1

Main_fetch_ec2_instances ==
  /\ pc = "ec2"
  /\ \E o \in MainEc2Outcomes(account, regions[i]) :
       LET r == fetch_ec2_instances(regions[i], o)
       IN /\ calls' = Append(calls, Event("fetch_ec2_instances", regions[i], "-"))
          /\ IF r.raised
             THEN pc' = "aborted" /\ UNCHANGED all_ec2
             ELSE pc' = "rds" /\ all_ec2' = Append(all_ec2, r.value)
  /\ UNCHANGED <<arg, ret, account, regions, i, all_rds, all_os, exported, file>>

Main_fetch_rds_instances ==
  /\ pc = "rds"
  /\ \E o \in MainRdsOutcomes(account, regions[i]) :
       LET r == fetch_rds_instances(regions[i], o)
       IN /\ calls' = Append(calls, Event("fetch_rds_instances", regions[i], "-"))
          /\ IF r.raised
             THEN pc' = "aborted" /\ UNCHANGED all_rds
             ELSE pc' = "os" /\ all_rds' = Append(all_rds, r.value)
  /\ UNCHANGED <<arg, ret, account, regions, i, all_ec2, all_os, exported, file>>

Main_fetch_opensearch_domains ==
  /\ pc = "os"
  /\ \E o \in MainOsOutcomes(account, regions[i]) :
       LET r == fetch_opensearch_domains(regions[i], o)
       IN /\ calls' = Append(calls, Event("fetch_opensearch_domains", regions[i], "-"))
          /\ IF r.raised
             THEN pc' = "aborted" /\ UNCHANGED <<all_os, i>>
             ELSE /\ pc' = AfterRegion
                  /\ i' = NextIndex
                  /\ all_os' = Append(all_os, r.value)
  /\ UNCHANGED <<arg, ret, account, regions, all_ec2, all_rds, exported, file>>

\* The three sheets export_to_excel is handed.
Sheets(ec2_df, rds_df, os_df) ==
  [EC2_Instances |-> ec2_df, RDS_Instances |-> rds_df, OpenSearch_Domains |-> os_df]

\* The three pd.concat lines and export_to_excel.  Writing may fail, before
\* the file exists or after ExcelWriter has created it, and the print after
\* the with block may raise once the file is saved; main has no handler.
Main_export_to_excel ==
  /\ pc = "export"
  /\ \E end \in ExportOutcomes :
       /\ exported' = Append(exported,
                             Sheets(pd_concat(all_ec2), pd_concat(all_rds), pd_concat(all_os)))
       /\ file' = end.file
       /\ pc' = IF end.raised THEN "aborted" ELSE "done"
       /\ calls' = Append(calls, Event("export_to_excel", "-",
                                       IF end.raised THEN "OtherError" ELSE "ok"))
  /\ UNCHANGED <<arg, ret, account, regions, i, all_ec2, all_rds, all_os>>

Next ==
  \/ Call_get_all_regions
  \/ Call_fetch_ec2_instances
  \/ Call_fetch_rds_instances
  \/ Call_fetch_opensearch_domains
  \/ Main_get_all_regions
  \/ Main_fetch_ec2_instances
  \/ Main_fetch_rds_instances
  \/ Main_fetch_opensearch_domains
  \/ Main_export_to_excel

Spec == Init /\ [][Next]_vars

(* ======================= properties of the code ======================= *)

Collectors == {"fetch_ec2_instances", "fetch_rds_instances", "fetch_opensearch_domains"}

\* A function entered on its own has ended.
Ended == pc \in {"returned", "raised"}

Last(s) == s[Len(s)]

\* The number of rows in the first j tables of a list of tables.
RECURSIVE RowsBefore(_, _)
RowsBefore(tables, j) ==
  IF j = 0 THEN 0 ELSE RowsBefore(tables, j - 1) + Len(tables[j])

\* C1: a collector whose primary listing call fails, in whatever way,
\* returns an empty table instead of raising.
C1_ListingFailureGivesEmptyTable ==
  (Ended /\ arg.op \in Collectors /\ arg.outcome.kind # "ok")
    => (pc = "returned" /\ ret = EmptyTable)

\* C2: once the regions are enumerated, no failure inside a collector ends
\* the run: main aborts only in get_all_regions or in export_to_excel.
C2_CollectorFailureNeverFatal ==
  pc = "aborted" => Last(calls).op \in {"get_all_regions", "export_to_excel"}

\* The listed domains of the call in arg, and those whose details arrived.
ListedDomains == arg.outcome.resp.DomainNames

DetailOk == {j \in 1..Len(ListedDomains) : ListedDomains[j].describe.kind = "ok"}

\* The rows of ret are the listed domains whose details arrived, in listing
\* order, and a domain whose tag fetch failed has Tags = {} and Name = ''.
RowsFollowSuccessfulDetails ==
  /\ Len(ret) = Cardinality(DetailOk)
  /\ \A k \in 1..Len(ret) :
       \E j \in DetailOk :
         /\ Cardinality({q \in DetailOk : q <= j}) = k
         /\ ret[k].DomainName = ListedDomains[j].DomainName
         /\ ret[k].ARN = ListedDomains[j].describe.resp.DomainStatus.ARN
         /\ ListedDomains[j].list_tags.kind # "ok"
              => (ret[k].Tags = EmptyDict /\ ret[k].Name = "")

\* C3: when the domain listing succeeds, fetch_opensearch_domains returns a
\* table with one row per listed domain whose detail fetch succeeded, in
\* listing order: a domain whose detail fetch fails is skipped and the
\* others are still emitted; a failed tag fetch leaves Tags = {}, Name = ''.
C3_DetailFailureOnlySkipsTheDomain ==
  (Ended /\ arg.op = "fetch_opensearch_domains" /\ arg.outcome.kind = "ok")
    => (pc = "returned" /\ RowsFollowSuccessfulDetails)

\* C4: when the region listing fails, main aborts at once: no collector is
\* invoked, export_to_excel is not called and no file is written; and
\* get_all_regions itself raises.
C4_RegionListingFailureAborts ==
  /\ (calls # <<>> /\ calls[1].api # "ok")
       => /\ pc = "aborted"
          /\ Len(calls) = 1
          /\ all_ec2 = <<>> /\ all_rds = <<>> /\ all_os = <<>>
          /\ exported = <<>>
          /\ file = "absent"
  /\ (Ended /\ arg.op = "get_all_regions" /\ arg.outcome.kind # "ok") => pc = "raised"

C4_Witness ==
  pc = "aborted" /\ calls # <<>> /\ calls[1].op = "get_all_regions" /\ calls[1].api # "ok"

\* The p-th event of a complete run over the enumerated regions: the
\* enumeration, then for each region in order EC2, RDS, OpenSearch, then
\* the export.
CollectorOrder == <<"fetch_ec2_instances", "fetch_rds_instances", "fetch_opensearch_domains">>

RunLength == 3 * Len(regions) + 2

ExpectedOp(p) ==
  IF p = 1 THEN "get_all_regions"
  ELSE IF p = RunLength THEN "export_to_excel"
  ELSE CollectorOrder[((p - 2) % 3) + 1]

ExpectedRegion(p) ==
  IF p = 1 \/ p = RunLength THEN "-" ELSE regions[((p - 2) \div 3) + 1]

\* The calls made so far are an initial part of the complete run, and the
\* export comes after every collector call.
CallsInOrder ==
  /\ Len(calls) <= RunLength
  /\ \A p \in 1..Len(calls) :
       calls[p].op = ExpectedOp(p) /\ calls[p].region = ExpectedRegion(p)
  /\ Len(exported) = Cardinality({p \in 1..Len(calls) : calls[p].op = "export_to_excel"})

\* C5: a run of main whose region enumeration succeeded makes, in this
\* order and each exactly once: for every region in enumeration order the
\* EC2, RDS and OpenSearch collector calls, and then one export_to_excel.
C5_EveryCallOnceInOrder ==
  (calls # <<>> /\ calls[1].api = "ok")
    => /\ CallsInOrder
       /\ pc \in {"done", "aborted"} => (Len(calls) = RunLength /\ Len(exported) = 1)

\* The region whose call produced row p of the concatenation of tables.
SourceRegion(tables, p) ==
  regions[CHOOSE j \in 1..Len(tables) :
            RowsBefore(tables, j - 1) < p /\ p <= RowsBefore(tables, j)]

RegionsMatch(sheet, tables) ==
  \A p \in 1..Len(sheet) :
    p <= RowsBefore(tables, Len(tables)) /\ sheet[p].Region = SourceRegion(tables, p)

\* C6: every row of a table returned by a collector, and every row of the
\* tables handed to export_to_excel, has as Region the region argument of
\* the collector call that produced it.
C6_RegionFieldIsCallRegion ==
  /\ (pc = "returned" /\ arg.op \in Collectors)
       => \A k \in 1..Len(ret) : ret[k].Region = arg.region
  /\ \A j \in 1..Len(all_ec2) : \A k \in 1..Len(all_ec2[j]) : all_ec2[j][k].Region = regions[j]
  /\ \A j \in 1..Len(all_rds) : \A k \in 1..Len(all_rds[j]) : all_rds[j][k].Region = regions[j]
  /\ \A j \in 1..Len(all_os) : \A k \in 1..Len(all_os[j]) : all_os[j][k].Region = regions[j]
  /\ \A e \in 1..Len(exported) :
       /\ RegionsMatch(exported[e].EC2_Instances, all_ec2)
       /\ RegionsMatch(exported[e].RDS_Instances, all_rds)
       /\ RegionsMatch(exported[e].OpenSearch_Domains, all_os)

C6_Witness ==
  /\ pc = "done"
  /\ Len(exported[1].EC2_Instances) = 2
  /\ exported[1].EC2_Instances[1].Region = RegionPool[1]
  /\ exported[1].EC2_Instances[2].Region = RegionPool[2]
  /\ Len(exported[1].OpenSearch_Domains) = 1
  /\ exported[1].OpenSearch_Domains[1].Region = RegionPool[2]

\* The describe-regions response of the call in arg.
ListedRegions == arg.outcome.resp.Regions

IncludedStatus(st) == st = "opt-in-not-required" \/ st = "opted-in"

\* C7: get_all_regions returns exactly the regions of the response whose
\* status is opt-in-not-required or opted-in, in the order of the response.
C7_RegionFilter ==
  (pc = "returned" /\ arg.op = "get_all_regions")
    => /\ \A k \in 1..Len(RegionPool) :
            (\E q \in 1..Len(ret) : ret[q] = RegionPool[k])
              <=> (\E j \in 1..Len(ListedRegions) :
                     /\ ListedRegions[j].RegionName = RegionPool[k]
                     /\ IncludedStatus(ListedRegions[j].OptInStatus))
       /\ \A a, b \in 1..Len(ret) :
            a < b => \E ja, jb \in 1..Len(ListedRegions) :
                       /\ ja < jb
                       /\ ListedRegions[ja].RegionName = ret[a]
                       /\ ListedRegions[jb].RegionName = ret[b]
       /\ Len(ret) <= Len(ListedRegions)

C7_Witness ==
  /\ pc = "returned" /\ arg.op = "get_all_regions"
  /\ Len(ListedRegions) = 2
  /\ ListedRegions[1].OptInStatus = "not-opted-in"
  /\ ListedRegions[2].OptInStatus = "opted-in"
  /\ ret = <<RegionPool[2]>>

\* The reservations of the describe_instances response of the call in arg.
ListedReservations == arg.outcome.resp.Reservations

InstanceLists == [r \in 1..Len(ListedReservations) |-> ListedReservations[r].Instances]

\* C8: when the listing succeeds, fetch_ec2_instances returns one row per
\* instance: as many rows as there are instances in all reservations
\* together, in reservation order and then instance order.
C8_Ec2Flattening ==
  (pc = "returned" /\ arg.op = "fetch_ec2_instances" /\ arg.outcome.kind = "ok")
    => /\ Len(ret) = RowsBefore(InstanceLists, Len(ListedReservations))
       /\ \A r \in 1..Len(ListedReservations) :
            \A k \in 1..Len(ListedReservations[r].Instances) :
              ret[RowsBefore(InstanceLists, r - 1) + k].InstanceId
                = ListedReservations[r].Instances[k].InstanceId

C8_Witness ==
  /\ pc = "returned" /\ arg.op = "fetch_ec2_instances" /\ arg.outcome.kind = "ok"
  /\ Len(ListedReservations) = 2
  /\ Len(ListedReservations[1].Instances) = 0
  /\ Len(ListedReservations[2].Instances) = 3
  /\ Len(ret) = 3
  /\ ret[3].InstanceId = ListedReservations[2].Instances[3].InstanceId

\* sheet is the per-region tables one after the other.
IsConcatenation(sheet, tables) ==
  /\ Len(sheet) = RowsBefore(tables, Len(tables))
  /\ \A j \in 1..Len(tables) :
       \A k \in 1..Len(tables[j]) : sheet[RowsBefore(tables, j - 1) + k] = tables[j][k]

\* On an account whose calls all succeed, the tables hold the account's
\* resources: in region j as many rows as the region has resources of the
\* kind, in the order the API lists them.
TablesHoldAccount ==
  \A j \in 1..Len(regions) :
    LET r == RegionIndex(regions[j])
    IN /\ Len(all_ec2[j]) = account.ec2[r]
       /\ Len(all_rds[j]) = account.rds[r]
       /\ Len(all_os[j]) = account.os[r]
       /\ \A k \in 1..Len(all_ec2[j]) : all_ec2[j][k].InstanceId = PyStr(InstancePool[k])
       /\ \A k \in 1..Len(all_rds[j]) : all_rds[j][k].DBInstanceIdentifier = PyStr(DbPool[k])
       /\ \A k \in 1..Len(all_os[j]) : all_os[j][k].DomainName = DomainPool[k]

\* C9: for each kind, the table handed to export_to_excel is the per-region
\* tables concatenated in region order: the row counts add up, every table's
\* rows keep their order, and with no region the table is empty.
C9_AggregationIsConcatenation ==
  \A e \in 1..Len(exported) :
    /\ Len(all_ec2) = Len(regions) /\ Len(all_rds) = Len(regions) /\ Len(all_os) = Len(regions)
    /\ IsConcatenation(exported[e].EC2_Instances, all_ec2)
    /\ IsConcatenation(exported[e].RDS_Instances, all_rds)
    /\ IsConcatenation(exported[e].OpenSearch_Domains, all_os)
    /\ ~account.flaky => TablesHoldAccount
    /\ regions = <<>> => /\ exported[e].EC2_Instances = EmptyTable
                         /\ exported[e].RDS_Instances = EmptyTable
                         /\ exported[e].OpenSearch_Domains = EmptyTable

\* Three regions holding 2, 0 and 5 instances: a sheet of 7 rows, the five
\* of the third region in the order listed.
C9_Witness ==
  /\ pc = "done" /\ file = "complete"
  /\ Len(regions) = 3
  /\ Len(all_ec2[1]) = 2 /\ Len(all_ec2[2]) = 0 /\ Len(all_ec2[3]) = 5
  /\ Len(exported[1].EC2_Instances) = 7
  /\ exported[1].EC2_Instances[2].Region = regions[1]
  /\ exported[1].EC2_Instances[3].Region = regions[3]
  /\ exported[1].EC2_Instances[3].InstanceId = PyStr(InstancePool[1])
  /\ exported[1].EC2_Instances[7].InstanceId = PyStr(InstancePool[5])
  /\ Len(exported[1].RDS_Instances) = 7
  /\ Len(exported[1].OpenSearch_Domains) = 7
  /\ exported[1].OpenSearch_Domains[5].DomainName = DomainPool[5]
  /\ exported[1].OpenSearch_Domains[6].Region = regions[2]

\* The details object of the listed domain named name in the call in arg.
DetailsOf(name) ==
  LET j == CHOOSE q \in DetailOk : ListedDomains[q].DomainName = name
  IN ListedDomains[j].describe.resp.DomainStatus

HasKey(d, k) == k \in DOMAIN d

\* The value under the current path when there is one, otherwise the value
\* under the legacy path (None when that is missing too).
Preferred(details, current, legacy, field) ==
  IF HasKey(details, current) /\ HasKey(details[current], field)
  THEN details[current][field]
  ELSE IF HasKey(details, legacy) /\ HasKey(details[legacy], field)
  THEN details[legacy][field]
  ELSE None

\* C10: in every row of fetch_opensearch_domains, EngineVersion and the four
\* cluster fields hold the value under the current field path whenever the
\* details have one there (False and 0 included), else the legacy path's.
C10_CurrentPathTakesPrecedence ==
  (pc = "returned" /\ arg.op = "fetch_opensearch_domains" /\ arg.outcome.kind = "ok")
    => \A k \in 1..Len(ret) :
         LET details == DetailsOf(ret[k].DomainName)
         IN /\ ret[k].EngineVersion =
                 (IF HasKey(details, "EngineVersion") THEN details.EngineVersion
                  ELSE IF HasKey(details, "ElasticsearchVersion")
                  THEN details.ElasticsearchVersion ELSE None)
            /\ ret[k].InstanceType =
                 Preferred(details, "ClusterConfig", "ElasticsearchClusterConfig", "InstanceType")
            /\ ret[k].InstanceCount =
                 Preferred(details, "ClusterConfig", "ElasticsearchClusterConfig", "InstanceCount")
            /\ ret[k].DedicatedMasterEnabled =
                 Preferred(details, "ClusterConfig", "ElasticsearchClusterConfig",
                           "DedicatedMasterEnabled")
            /\ ret[k].ZoneAwarenessEnabled =
                 Preferred(details, "ClusterConfig", "ElasticsearchClusterConfig",
                           "ZoneAwarenessEnabled")

====
